---- MODULE Spec2Model ----
(***************************************************************************)
(* Traffic_Signs_Classification.py: a top-level script.  It loads three    *)
(* pickled splits, splits each into features and labels, displays one      *)
(* sample of each, shuffles the training split, converts the three splits  *)
(* to grayscale and normalizes them; the network itself is described in    *)
(* prose only (the shape notes of lines 123-236).                          *)
(*                                                                         *)
(* Three specifications:                                                   *)
(*   Spec     the script as written, from line 47 on;                      *)
(*   SpecPre  the preprocessing statements of lines 94-120, from the       *)
(*            bindings lines 47-53 establish;                              *)
(*   SpecNet  the shape notes of lines 123-236.                            *)
(*                                                                         *)
(* Numbers: numpy's X / 3 is a true division, so the grayscale and the     *)
(* normalized values are modelled as exact rationals <<num, den>>; the     *)
(* rounding of float64 is not modelled.                                    *)
(***************************************************************************)
EXTENDS Integers, Sequences, FiniteSets

VARIABLES
    train, valid, test,             \* the loaded dictionaries (lines 33-40)
    X_train, y_train,               \* line 47, rebound by line 96
    X_validation, y_validation,     \* line 50
    X_test, y_test,                 \* line 53
    X_train_gray, X_validation_gray, X_test_gray,                  \* lines 99, 103, 107
    X_train_gray_norm, X_validation_gray_norm, X_test_gray_norm,   \* lines 112, 116, 119
    names,                          \* the global names bound so far
    shuffled,                       \* line 96 has rebound X_train, y_train
    pc,                             \* the statement to run next
    err,                            \* the exception that stopped the run
    layers,                         \* the network stages described so far
    probe                           \* an (Input, Filter, Stride) the equation is applied to

loaded == <<train, valid, test>>
split == <<X_train, y_train, X_validation, y_validation, X_test, y_test>>
grays == <<X_train_gray, X_validation_gray, X_test_gray>>
norms == <<X_train_gray_norm, X_validation_gray_norm, X_test_gray_norm>>
net == <<layers, probe>>
vars == <<loaded, split, grays, norms, names, shuffled, pc, err, net>>

-----------------------------------------------------------------------------
(* Bounds of the model *)

MaxN == 2          \* images in the training split (SpecPre)
MaxEvalN == 2      \* images in the validation and the test split (SpecPre)
ImgH == 1          \* image height
ImgW == 2          \* image width
MaxExtra == 2      \* batch sizes i .. i + MaxExtra in the script run (Spec)
MaxInput == 8      \* input dimensions the shape equation is applied to
MaxStride == 3     \* strides the shape equation is applied to

(* Program constants *)

i == 23            \* the index of the sample image
classes == 43      \* the number of traffic-sign classes

-----------------------------------------------------------------------------
(* Exact rational arithmetic for numpy's float operations *)

Abs(n) == IF n < 0 THEN -n ELSE n

RECURSIVE GCD(_, _)
GCD(a, b) == IF b = 0 THEN a ELSE GCD(b, a % b)

Rat(n, d) == LET g == GCD(Abs(n), d) IN <<n \div g, d \div g>>
RatAdd(p, q) == Rat(p[1] * q[2] + q[1] * p[2], p[2] * q[2])
RatSubInt(p, k) == Rat(p[1] - k * p[2], p[2])
RatDivInt(p, k) == Rat(p[1], p[2] * k)
RatEq(p, q) == p[1] * q[2] = q[1] * p[2]
RatLe(p, q) == p[1] * q[2] <= q[1] * p[2]

-----------------------------------------------------------------------------
(* Arrays.  A features array is [ndim, data]: data is the sequence of      *)
(* images, an image a sequence of rows, a row a sequence of pixels, a      *)
(* pixel the sequence of its channel values.  An array of ndim 3 has no    *)
(* channel axis; its pixels are kept as one-element sequences.             *)

Array(ndim, data) == [ndim |-> ndim, data |-> data]
NoArray == Array(0, <<>>)

Seqs(S, n) == UNION {[1..k -> S] : k \in 0..n}

Image(a, b) ==
    [r \in 1..ImgH |-> [c \in 1..ImgW |-> IF (r + c) % 2 = 0 THEN a ELSE b]]

Black == <<0, 0, 0>>
White == <<255, 255, 255>>
Mid == <<128, 128, 128>>
Mixed == <<0, 128, 255>>
Red == <<255, 0, 0>>

Labels == {0, classes - 1}

TrainImages == {Image(Black, White), Image(Mid, Mixed)}

\* Ill-formed features: four channels, one channel, no channel axis.
Rgba == Array(4, <<Image(<<255, 255, 255, 255>>, <<0, 0, 0, 0>>)>>)
Gray1 == Array(4, <<Image(<<255>>, <<0>>)>>)
NoChannelAxis == Array(3, <<Image(<<255>>, <<0>>)>>)

TrainFeatures ==
    {Array(4, d) : d \in Seqs(TrainImages, MaxN)} \cup {Rgba, NoChannelAxis}

TrainBatches ==
    {[features |-> f, labels |-> l] : f \in TrainFeatures, l \in Seqs(Labels, MaxN)}

EvalData(n) == [k \in 1..n |-> IF k % 2 = 1 THEN Image(Red, Mixed) ELSE Image(White, Black)]
EvalLabels(n) == [k \in 1..n |-> IF k % 2 = 1 THEN classes - 1 ELSE 0]

EvalBatches ==
    {[features |-> Array(4, EvalData(n)), labels |-> EvalLabels(n)] : n \in 0..MaxEvalN}
    \cup {[features |-> Array(4, EvalData(n)), labels |-> EvalLabels(n - 1)] : n \in 1..MaxEvalN}
    \cup {[features |-> f, labels |-> EvalLabels(1)] : f \in {Rgba, Gray1, NoChannelAxis}}

\* The batches of the script run: large enough for the sample index i.
ScriptBatches ==
    {[features |-> Array(4, EvalData(n)), labels |-> EvalLabels(m)] :
        n \in i..(i + MaxExtra), m \in i..(i + MaxExtra)}

-----------------------------------------------------------------------------
(* sklearn.utils.shuffle(X, y): one index permutation applied to every     *)
(* array; arrays of different lengths are refused with a ValueError.       *)

Perms(n) == {p \in [1..n -> 1..n] : \A a, b \in 1..n : a # b => p[a] # p[b]}

Take(s, indices) == [k \in 1..Len(indices) |-> s[indices[k]]]

InconsistentLength(X, y) == Len(X.data) # Len(y)

shuffle_features_only(X, y, indices) ==
    <<Array(X.ndim, Take(X.data, indices)), y>>

shuffle(X, y, indices) ==
    <<Array(X.ndim, Take(X.data, indices)), Take(y, indices)>>

(* np.sum(X / 3, axis = 3, keepdims = True) *)

TrueDivide(px, d) == [k \in 1..Len(px) |-> RatDivInt(<<px[k], 1>>, d)]

RECURSIVE SumSeq(_)
SumSeq(s) ==
    IF s = <<>> THEN <<0, 1>>
    ELSE RatAdd(SumSeq(SubSeq(s, 1, Len(s) - 1)), s[Len(s)])

AxisOutOfBounds(X) == X.ndim < 4

GrayPixel_nodiv(px) == <<SumSeq(TrueDivide(px, 1))>>

GrayPixel(px) == <<SumSeq(TrueDivide(px, 3))>>

to_grayscale(X) ==
    Array(X.ndim,
          [n \in 1..Len(X.data) |->
              [r \in 1..Len(X.data[n]) |->
                  [c \in 1..Len(X.data[n][r]) |-> GrayPixel(X.data[n][r][c])]]])

(* (X_gray - 128) / 128 *)

NormPixel_nocenter(px) == [k \in 1..Len(px) |-> RatDivInt(px[k], 128)]

NormPixel(px) == [k \in 1..Len(px) |-> RatDivInt(RatSubInt(px[k], 128), 128)]

normalize(G) ==
    Array(G.ndim,
          [n \in 1..Len(G.data) |->
              [r \in 1..Len(G.data[n]) |->
                  [c \in 1..Len(G.data[n][r]) |-> NormPixel(G.data[n][r][c])]]])

-----------------------------------------------------------------------------
(* The script as written (Spec) *)

NetIdle ==
    /\ layers = <<>>
    /\ probe = [Input |-> 32, Filter |-> 5, Stride |-> 1]

Unbound ==
    /\ X_train_gray = NoArray /\ X_validation_gray = NoArray /\ X_test_gray = NoArray
    /\ X_train_gray_norm = NoArray /\ X_validation_gray_norm = NoArray
    /\ X_test_gray_norm = NoArray
    /\ shuffled = FALSE
    /\ err = "none"

Init ==
    /\ train \in ScriptBatches /\ valid \in ScriptBatches /\ test \in ScriptBatches
    /\ X_train = NoArray /\ y_train = <<>>
    /\ X_validation = NoArray /\ y_validation = <<>>
    /\ X_test = NoArray /\ y_test = <<>>
    /\ names = {}
    /\ pc = "split_train"
    /\ Unbound
    /\ NetIdle

SplitTrain ==
    /\ pc = "split_train"
    /\ X_train' = train.features /\ y_train' = train.labels
    /\ names' = names \cup {"X_train", "y_train"}
    /\ pc' = "split_validation"
    /\ UNCHANGED <<loaded, X_validation, y_validation, X_test, y_test,
                   grays, norms, shuffled, err, net>>

SplitValidation ==
    /\ pc = "split_validation"
    /\ X_validation' = valid.features /\ y_validation' = valid.labels
    /\ names' = names \cup {"X_validation", "y_validation"}
    /\ pc' = "split_test"
    /\ UNCHANGED <<loaded, X_train, y_train, X_test, y_test,
                   grays, norms, shuffled, err, net>>

SplitTest ==
    /\ pc = "split_test"
    /\ X_test' = test.features /\ y_test' = test.labels
    /\ names' = names \cup {"X_test", "y_test"}
    /\ pc' = "show_train"
    /\ UNCHANGED <<loaded, X_train, y_train, X_validation, y_validation,
                   grays, norms, shuffled, err, net>>

\* X[i] and y[i]: index i of a sequence of length n exists iff i < n.
IndexOutOfRange(X, y) == ~(i < Len(X.data) /\ i < Len(y))

ShowTrain ==
    /\ pc = "show_train"
    /\ IF IndexOutOfRange(X_train, y_train)
         THEN pc' = "halt" /\ err' = "IndexError"
         ELSE pc' = "show_validation" /\ err' = err
    /\ UNCHANGED <<loaded, split, grays, norms, names, shuffled, net>>

ShowValidation ==
    /\ pc = "show_validation"
    /\ IF IndexOutOfRange(X_validation, y_validation)
         THEN pc' = "halt" /\ err' = "IndexError"
         ELSE pc' = "show_test" /\ err' = err
    /\ UNCHANGED <<loaded, split, grays, norms, names, shuffled, net>>

\* plt.imshwo: the module has no such attribute; the lookup fails before
\* X_test[i] is evaluated.
ShowTest ==
    /\ pc = "show_test"
    /\ pc' = "halt" /\ err' = "AttributeError"
    /\ UNCHANGED <<loaded, split, grays, norms, names, shuffled, net>>

Next == SplitTrain \/ SplitValidation \/ SplitTest
        \/ ShowTrain \/ ShowValidation \/ ShowTest

Spec == Init /\ [][Next]_vars

-----------------------------------------------------------------------------
(* The preprocessing statements (SpecPre) *)

InitPre ==
    /\ train \in TrainBatches /\ valid \in EvalBatches /\ test \in EvalBatches
    /\ X_train = train.features /\ y_train = train.labels
    /\ X_validation = valid.features /\ y_validation = valid.labels
    /\ X_test = test.features /\ y_test = test.labels
    /\ names = {"X_train", "y_train", "X_validation", "y_validation", "X_test", "y_test"}
    /\ pc = "shuffle"
    /\ Unbound
    /\ NetIdle

ShuffleTrain ==
    /\ pc = "shuffle"
    /\ IF InconsistentLength(X_train, y_train)
         THEN /\ pc' = "halt" /\ err' = "ValueError"
              /\ UNCHANGED <<X_train, y_train, shuffled>>
         ELSE \E indices \in Perms(Len(y_train)) :
              /\ X_train' = shuffle(X_train, y_train, indices)[1]
              /\ y_train' = shuffle(X_train, y_train, indices)[2]
              /\ shuffled' = TRUE
              /\ pc' = "gray_train" /\ err' = err
    /\ UNCHANGED <<loaded, X_validation, y_validation, X_test, y_test,
                   grays, norms, names, net>>

GrayTrain ==
    /\ pc = "gray_train"
    /\ IF AxisOutOfBounds(X_train)
         THEN pc' = "halt" /\ err' = "AxisError" /\ UNCHANGED <<X_train_gray, names>>
         ELSE /\ X_train_gray' = to_grayscale(X_train)
              /\ names' = names \cup {"X_train_gray"}
              /\ pc' = "gray_validation" /\ err' = err
    /\ UNCHANGED <<loaded, split, X_validation_gray, X_test_gray, norms, shuffled, net>>

GrayValidation_from_train ==
    /\ pc = "gray_validation"
    /\ IF AxisOutOfBounds(X_train)
         THEN pc' = "halt" /\ err' = "AxisError" /\ UNCHANGED <<X_validation_gray, names>>
         ELSE /\ X_validation_gray' = to_grayscale(X_train)
              /\ names' = names \cup {"X_validation_gray"}
              /\ pc' = "gray_test" /\ err' = err
    /\ UNCHANGED <<loaded, split, X_train_gray, X_test_gray, norms, shuffled, net>>

GrayValidation ==
    /\ pc = "gray_validation"
    /\ IF AxisOutOfBounds(X_validation)
         THEN pc' = "halt" /\ err' = "AxisError" /\ UNCHANGED <<X_validation_gray, names>>
         ELSE /\ X_validation_gray' = to_grayscale(X_validation)
              /\ names' = names \cup {"X_validation_gray"}
              /\ pc' = "gray_test" /\ err' = err
    /\ UNCHANGED <<loaded, split, X_train_gray, X_test_gray, norms, shuffled, net>>

GrayTest ==
    /\ pc = "gray_test"
    /\ IF AxisOutOfBounds(X_test)
         THEN pc' = "halt" /\ err' = "AxisError" /\ UNCHANGED <<X_test_gray, names>>
         ELSE /\ X_test_gray' = to_grayscale(X_test)
              /\ names' = names \cup {"X_test_gray"}
              /\ pc' = "norm_train" /\ err' = err
    /\ UNCHANGED <<loaded, split, X_train_gray, X_validation_gray, norms, shuffled, net>>

NormTrain ==
    /\ pc = "norm_train"
    /\ X_train_gray_norm' = normalize(X_train_gray)
    /\ names' = names \cup {"X_train_gray_norm"}
    /\ pc' = "norm_validation"
    /\ UNCHANGED <<loaded, split, grays, X_validation_gray_norm, X_test_gray_norm,
                   shuffled, err, net>>

NormValidation ==
    /\ pc = "norm_validation"
    /\ X_validation_gray_norm' = normalize(X_validation_gray)
    /\ names' = names \cup {"X_validation_gray_norm"}
    /\ pc' = "norm_test"
    /\ UNCHANGED <<loaded, split, grays, X_train_gray_norm, X_test_gray_norm,
                   shuffled, err, net>>

NormTest ==
    /\ pc = "norm_test"
    /\ X_test_gray_norm' = normalize(X_test_gray)
    /\ names' = names \cup {"X_test_gray_norm"}
    /\ pc' = "done"
    /\ UNCHANGED <<loaded, split, grays, X_train_gray_norm, X_validation_gray_norm,
                   shuffled, err, net>>

NextPre == ShuffleTrain \/ GrayTrain \/ GrayValidation \/ GrayTest
           \/ NormTrain \/ NormValidation \/ NormTest

SpecPre == InitPre /\ [][NextPre]_vars

-----------------------------------------------------------------------------
(* The network's shape notes (SpecNet).  A stage is a record               *)
(* [op, input, output]: input is the shape the note gives the stage,       *)
(* output the shape its operation makes of it.                             *)

\* Output = ((Input - Filter) + 1) / Stride
OutputEquation_noplus1(Input, Filter, Stride) == Rat(Input - Filter, Stride)

OutputEquation(Input, Filter, Stride) == Rat((Input - Filter) + 1, Stride)

Whole(q) == q[1] \div q[2]

\* The kernel glides over the input, shifted by Stride each time: the
\* offsets at which it lies inside the input.
KernelOffsets(Input, Filter, Stride) ==
    {o \in 0..Input : o % Stride = 0 /\ o + Filter <= Input}

InputImage == <<32, 32, 1>>

Convolution(shape, filters, Filter, Stride) ==
    <<Whole(OutputEquation(shape[1], Filter, Stride)),
      Whole(OutputEquation(shape[2], Filter, Stride)),
      filters>>

ReLU(shape) == shape

Pooling(shape) == <<shape[1] \div 2, shape[2] \div 2, shape[3]>>

Flatten(shape) == <<shape[1] * shape[2] * shape[3]>>

Dense(shape, nodes) == <<nodes>>

Stage(op, input, output) == [op |-> op, input |-> input, output |-> output]

LastOutput == layers[Len(layers)].output

InitNet ==
    /\ train = [features |-> NoArray, labels |-> <<>>]
    /\ valid = train /\ test = train
    /\ X_train = NoArray /\ y_train = <<>>
    /\ X_validation = NoArray /\ y_validation = <<>>
    /\ X_test = NoArray /\ y_test = <<>>
    /\ names = {}
    /\ pc = "network"
    /\ Unbound
    /\ NetIdle

Add(stage) ==
    /\ pc = "network"
    /\ layers' = Append(layers, stage)
    /\ UNCHANGED <<loaded, split, grays, norms, names, shuffled, pc, err, probe>>

Conv1 ==
    /\ Len(layers) = 0
    /\ Add(Stage("convolution", InputImage, Convolution(InputImage, 6, 5, 1)))

Relu1 ==
    /\ Len(layers) = 1
    /\ Add(Stage("relu", LastOutput, ReLU(LastOutput)))

Pool1 ==
    /\ Len(layers) = 2
    /\ Add(Stage("pooling", <<28, 28, 6>>, Pooling(<<28, 28, 6>>)))

Conv2 ==
    /\ Len(layers) = 3
    /\ Add(Stage("convolution", <<14, 14, 6>>, Convolution(<<14, 14, 6>>, 16, 5, 1)))

Relu2 ==
    /\ Len(layers) = 4
    /\ Add(Stage("relu", LastOutput, ReLU(LastOutput)))

Pool2 ==
    /\ Len(layers) = 5
    /\ Add(Stage("pooling", <<10, 10, 16>>, Pooling(<<10, 10, 16>>)))

FlattenLayer ==
    /\ Len(layers) = 6
    /\ Add(Stage("flatten", <<5, 5, 16>>, Flatten(<<5, 5, 16>>)))

Dense1 ==
    /\ Len(layers) = 7
    /\ Add(Stage("dense", <<400>>, Dense(<<400>>, 120)))

Dense2 ==
    /\ Len(layers) = 8
    /\ Add(Stage("dense", <<120>>, Dense(<<120>>, 80)))

Dense3 ==
    /\ Len(layers) = 9
    /\ Add(Stage("dense", <<80>>, Dense(<<80>>, classes)))

\* The equation applied to another input, filter and stride.
Probe ==
    /\ pc = "network"
    /\ \E Input \in 1..MaxInput, Stride \in 1..MaxStride :
       \E Filter \in 1..Input :
          probe' = [Input |-> Input, Filter |-> Filter, Stride |-> Stride]
    /\ UNCHANGED <<loaded, split, grays, norms, names, shuffled, pc, err, layers>>

NextNet == Conv1 \/ Relu1 \/ Pool1 \/ Conv2 \/ Relu2 \/ Pool2
           \/ FlattenLayer \/ Dense1 \/ Dense2 \/ Dense3 \/ Probe

SpecNet == InitNet /\ [][NextNet]_vars

-----------------------------------------------------------------------------
(* Properties *)

PairBag(f, l) ==
    LET pairs == {<<f[k], l[k]>> : k \in 1..Len(f)}
    IN  [p \in pairs |-> Cardinality({k \in 1..Len(f) : <<f[k], l[k]>> = p})]

Pixels(X) ==
    {<<n, r, c>> : n \in 1..Len(X.data), r \in 1..ImgH, c \in 1..ImgW}

SameGrid(A, B) ==
    /\ A.ndim = B.ndim
    /\ Len(A.data) = Len(B.data)
    /\ \A n \in 1..Len(A.data) :
          /\ Len(A.data[n]) = Len(B.data[n])
          /\ \A r \in 1..Len(A.data[n]) : Len(A.data[n][r]) = Len(B.data[n][r])

Channels(X, c) ==
    /\ X.ndim = 4
    /\ \A n \in 1..Len(X.data) : \A r \in 1..Len(X.data[n]) :
          \A k \in 1..Len(X.data[n][r]) : Len(X.data[n][r][k]) = c

WrongChannels(X) ==
    /\ X.ndim = 4
    /\ \E n \in 1..Len(X.data) : \E r \in 1..Len(X.data[n]) :
          \E k \in 1..Len(X.data[n][r]) : Len(X.data[n][r][k]) # 3

Outputs ==
    {"X_train_gray", "X_validation_gray", "X_test_gray",
     "X_train_gray_norm", "X_validation_gray_norm", "X_test_gray_norm"}

Normalized == {"X_train_gray_norm", "X_validation_gray_norm", "X_test_gray_norm"}

\* C1: once line 96 has run, X_train and y_train are the loaded training
\* features and labels reordered by one and the same permutation: the
\* lengths are unchanged and the multiset of (image, label) pairs is the
\* loaded one.
C1_ShuffleKeepsPairs ==
    shuffled =>
        /\ Len(X_train.data) = Len(train.features.data)
        /\ Len(y_train) = Len(train.labels)
        /\ Len(X_train.data) = Len(y_train)
        /\ \E p \in Perms(Len(y_train)) :
              /\ \A k \in 1..Len(y_train) : X_train.data[k] = train.features.data[p[k]]
              /\ \A k \in 1..Len(y_train) : y_train[k] = train.labels[p[k]]
        /\ PairBag(X_train.data, y_train) = PairBag(train.features.data, train.labels)

C1_Witness ==
    /\ shuffled
    /\ Len(y_train) >= 2
    /\ X_train.data # train.features.data
    /\ y_train # train.labels

IsTransformOf(Z, X) ==
    /\ Len(Z.data) = Len(X.data)
    /\ \A n \in 1..Len(X.data) :
          Z.data[n] = normalize(to_grayscale(Array(X.ndim, <<X.data[n]>>))).data[1]

\* C2: when the preprocessing statements have all run, the validation and
\* the test labels and features are the loaded ones in the loaded order, and
\* the i-th normalized validation/test image is the transform of the i-th
\* loaded validation/test image.
C2_EvalSplitsKeepOrder ==
    pc = "done" =>
        /\ y_validation = valid.labels /\ y_test = test.labels
        /\ X_validation = valid.features /\ X_test = test.features
        /\ IsTransformOf(X_validation_gray_norm, valid.features)
        /\ IsTransformOf(X_test_gray_norm, test.features)

C2_Witness ==
    /\ pc = "done"
    /\ X_train.data # train.features.data
    /\ Len(valid.features.data) >= 2
    /\ valid.features.data[1] # valid.features.data[2]
    /\ Len(test.features.data) >= 2
    /\ valid.features # train.features

IsChannelMean(G, X) ==
    /\ SameGrid(G, X)
    /\ \A n \in 1..Len(X.data) : \A r \in 1..Len(X.data[n]) :
          \A c \in 1..Len(X.data[n][r]) :
             LET px == X.data[n][r][c]
                 g == G.data[n][r][c]
             IN  /\ Len(g) = 1
                 /\ g[1][1] * 3 = (px[1] + px[2] + px[3]) * g[1][2]

\* C3: for a split of three-channel images, the grayscale array has the
\* images, rows and columns of its input in the same order, depth 1, and at
\* every pixel location the value (R + G + B) / 3 of that location's three
\* channel values.
C3_GrayscaleIsChannelMean ==
    /\ ("X_train_gray" \in names /\ Channels(X_train, 3))
          => IsChannelMean(X_train_gray, X_train)
    /\ ("X_validation_gray" \in names /\ Channels(X_validation, 3))
          => IsChannelMean(X_validation_gray, X_validation)
    /\ ("X_test_gray" \in names /\ Channels(X_test, 3))
          => IsChannelMean(X_test_gray, X_test)

C3_Witness ==
    /\ {"X_train_gray", "X_validation_gray", "X_test_gray"} \subseteq names
    /\ Channels(X_train, 3) /\ Channels(X_validation, 3) /\ Channels(X_test, 3)
    /\ Len(X_train.data) >= 2 /\ X_train.data[1] # X_train.data[2]
    /\ Len(X_validation.data) >= 1 /\ Len(X_test.data) >= 1
    /\ \E q \in Pixels(X_train) : X_train_gray.data[q[1]][q[2]][q[3]][1][2] = 3

InByteRange(v) == RatLe(<<0, 1>>, v) /\ RatLe(v, <<255, 1>>)

IsNormalizedFrom(Z, G) ==
    /\ SameGrid(Z, G)
    /\ \A n \in 1..Len(G.data) : \A r \in 1..Len(G.data[n]) :
          \A c \in 1..Len(G.data[n][r]) :
             LET v == G.data[n][r][c][1]
                 z == Z.data[n][r][c][1]
             IN  InByteRange(v) =>
                    /\ Len(Z.data[n][r][c]) = 1
                    /\ z[1] * 128 * v[2] = (v[1] - 128 * v[2]) * z[2]
                    /\ RatLe(<<-1, 1>>, z) /\ RatLe(z, <<1, 1>>)
                    /\ (v = <<0, 1>> => z = <<-1, 1>>)
                    /\ (v = <<128, 1>> => z = <<0, 1>>)
                    /\ (v = <<255, 1>> => z = <<127, 128>>)

\* C4: every normalized pixel made from a grayscale value v in [0, 255] is
\* (v - 128) / 128 and lies in [-1, 1]; 0 becomes -1, 128 becomes 0 and 255
\* becomes 127/128.
C4_NormalizedInUnitRange ==
    /\ "X_train_gray_norm" \in names => IsNormalizedFrom(X_train_gray_norm, X_train_gray)
    /\ "X_validation_gray_norm" \in names
          => IsNormalizedFrom(X_validation_gray_norm, X_validation_gray)
    /\ "X_test_gray_norm" \in names => IsNormalizedFrom(X_test_gray_norm, X_test_gray)

C4_Witness ==
    /\ Normalized \subseteq names
    /\ Channels(X_train, 3) /\ Channels(X_validation, 3) /\ Channels(X_test, 3)
    /\ \A z \in {<<-1, 1>>, <<0, 1>>, <<127, 128>>} :
          \E q \in Pixels(X_train) : X_train_gray_norm.data[q[1]][q[2]][q[3]][1] = z
    /\ \E q \in Pixels(X_train) : X_train_gray_norm.data[q[1]][q[2]][q[3]][1][2] = 384
    /\ Len(X_test.data) >= 1

ShapeTable ==
    << <<28, 28, 6>>, <<28, 28, 6>>, <<14, 14, 6>>,
       <<10, 10, 16>>, <<10, 10, 16>>, <<5, 5, 16>>,
       <<400>>, <<120>>, <<80>>, <<classes>> >>

\* C5: the stages described so far have the tabulated output shapes, from
\* 28x28x6 after the first convolution to the 43 output nodes, and each
\* stage's input shape is the previous stage's output shape (32x32x1 for the
\* first).
C5_ShapeTable ==
    \A k \in 1..Len(layers) :
        /\ layers[k].output = ShapeTable[k]
        /\ layers[k].input = IF k = 1 THEN <<32, 32, 1>> ELSE layers[k - 1].output

C5_Witness ==
    /\ Len(layers) = 10
    /\ layers[10].output = <<43>>
    /\ layers[7].output = <<400>>

\* C6: for the input, filter and stride the equation is applied to, the
\* number of kernel positions is floor((Input - Filter) / Stride) + 1, and
\* the program's equation ((Input - Filter) + 1) / Stride gives that number.
C6_ShapeRule ==
    LET rule == ((probe.Input - probe.Filter) \div probe.Stride) + 1
    IN  /\ Cardinality(KernelOffsets(probe.Input, probe.Filter, probe.Stride)) = rule
        /\ RatEq(OutputEquation(probe.Input, probe.Filter, probe.Stride), <<rule, 1>>)

Mismatched(batch) == Len(batch.features.data) # Len(batch.labels)

\* C7: a split whose features and labels differ in length gets no
\* normalized batch.
C7_MismatchFails ==
    /\ Mismatched(train) => "X_train_gray_norm" \notin names
    /\ Mismatched(valid) => "X_validation_gray_norm" \notin names
    /\ Mismatched(test) => "X_test_gray_norm" \notin names

\* C8: a split with an image that has not exactly 3 channels gets no
\* grayscale array.
C8_WrongChannelsFail ==
    /\ WrongChannels(train.features) => "X_train_gray" \notin names
    /\ WrongChannels(valid.features) => "X_validation_gray" \notin names
    /\ WrongChannels(test.features) => "X_test_gray" \notin names

\* C9: after an error, no shuffled, grayscale or normalized output has been
\* produced or replaced.
C9_NoPartialOutput ==
    err # "none" => (~shuffled /\ names \cap Outputs = {})

WellFormed(batch) ==
    /\ ~Mismatched(batch)
    /\ Channels(batch.features, 3)
    /\ Len(batch.labels) > i

\* C10: a run of the script on three well-formed splits stops only with the
\* three normalized arrays bound and no error.
C10_RunReachesNormalized ==
    (WellFormed(train) /\ WellFormed(valid) /\ WellFormed(test) /\ pc = "halt")
        => (err = "none" /\ Normalized \subseteq names)

====
